---- MODULE Spec2Model ----
(***************************************************************************)
(* A model of invest_functions.py: the portfolio simulation                *)
(* (historical_return), the time series aligner (organize_data) and the    *)
(* max-drawdown walk of portfolio_statistics.                              *)
(*                                                                         *)
(* Money is counted in mills (1/1000 of a dollar), so that round(x, 2) is  *)
(* a real rounding to a multiple of Cent.  Floating point is abstracted to *)
(* exact decimal arithmetic; a tie of round(x, 2) goes to the even cent,   *)
(* as numpy's rounding does on an exactly represented value.  A moving     *)
(* average and a drawdown are exact fractions <<numerator, denominator>>.  *)
(* A NaN cell of a DataFrame is the empty set, a value v the set {v}.      *)
(***************************************************************************)
EXTENDS Integers, Sequences, FiniteSets

VARIABLES
    \* historical_return
    trend, trend_period, riskless, initial_cash,
    focused_data, pc, cash, shares, shares_to_buy,
    transactions, portfolio_history,
    \* organize_data
    files, all_data, apc,
    \* portfolio_statistics
    returns, idx, max_value, max_drawdown, spc

simVars == <<trend, trend_period, riskless, initial_cash, focused_data, pc,
             cash, shares, shares_to_buy, transactions, portfolio_history>>
alignVars == <<files, all_data, apc>>
statVars == <<returns, idx, max_value, max_drawdown, spc>>
vars == <<simVars, alignVars, statVars>>

----------------------------------------------------------------------------
(* Bounds of the model and constants of the program *)

\* the longest table historical_return is run on
MaxRows == 10
\* the largest trend_period argument
MaxTrendPeriod == 2
\* the longest list of assets organize_data is given
MaxAssets == 3
\* the longest value history portfolio_statistics is given, and its largest value
MaxHistory == 4
MaxValue == 3
\* mills per cent: round(x, 2) rounds to a multiple of Cent
Cent == 10
\* the window of focused_data.rolling(10)
RollingWindow == 10

\* the two asset names of a run
asset == "VT"
riskless_asset == "VGSH"

\* initial_cash: a whole number of cents, and one that is not
InitialCashValues == {7060, 4037}
\* the risky close: flat while the rolling window fills, free afterwards
EarlyRiskyCloses == {1009}
LateRiskyCloses == {1004, 1009, 1013}
RisklessCloses == {503}
\* rows whose dividend cells may hold a value, and the values
DividendRows == {1, RollingWindow - 1}
DividendRates == {0, 40}

NaN == {}
notna(x) == x # NaN
ValueOf(x) == CHOOSE v \in x : TRUE

Last(s) == s[Len(s)]

----------------------------------------------------------------------------
(* historical_return: helpers *)

\* round(x, 2) of an amount x in mills
round2(x) ==
    LET q == x \div Cent
        r == x % Cent
    IN  IF 2 * r < Cent THEN q * Cent
        ELSE IF 2 * r > Cent THEN (q + 1) * Cent
        ELSE IF q % 2 = 0 THEN q * Cent ELSE (q + 1) * Cent

RECURSIVE SumCloses(_, _, _)
SumCloses(data, from, to) ==
    IF from > to THEN 0
    ELSE data[to].Close[asset] + SumCloses(data, from, to - 1)

\* focused_data.rolling(w)["Close_asset"].mean() at row i (0-based) of a table
\* whose rows 0..i-1 are data and whose row i closes at close
rolling_mean(w, data, close) ==
    IF Len(data) + 1 < w THEN NaN
    ELSE {<<close + SumCloses(data, Len(data) - w + 2, Len(data)), w>>}

\* the moving average column of historical_return
moving_average(data, close) ==
    IF trend THEN rolling_mean(RollingWindow, data, close) ELSE NaN

\* Close > MA of a row; a comparison with NaN is False
above_trend(row) ==
    /\ notna(row.MA)
    /\ row.Close[asset] * ValueOf(row.MA)[2] > ValueOf(row.MA)[1]

\* the condition of the allocation decision
select_risky(row) == (~trend) \/ (trend /\ above_trend(row))

\* shares.keys(), in insertion order
share_keys == IF riskless THEN <<asset, riskless_asset>> ELSE <<asset>>

transaction(date, kind, a, price, units, value) ==
    [Date |-> date, Transaction |-> kind, Asset |-> a, Price |-> price,
     Units |-> units, Value |-> value]

\* the Units cell of a Sell record holds the shares dict itself
SharesRef == "shares"

\* one pass of the dividend loop, for the asset a
accrue_dividend(st, row, a) ==
    IF notna(row.Dividends[a])
    THEN LET dividend == round2(st.shares[a] * ValueOf(row.Dividends[a]))
         IN  [st EXCEPT !.cash = @ + dividend,
                        !.transactions = Append(@,
                            transaction(row.Date, "Dividend", a, dividend, 1, dividend))]
    ELSE st

RECURSIVE accrue_dividends(_, _, _)
accrue_dividends(st, row, k) ==
    IF k > Len(share_keys) THEN st
    ELSE accrue_dividends(accrue_dividend(st, row, share_keys[k]), row, k + 1)

\* a bootstrap entry added one iteration late
bootstrap_late(history, i, date) ==
    IF i = 1 THEN Append(history, [Date |-> date, PortfolioValue |-> initial_cash])
    ELSE history

\* the bootstrap entry of the value history, added in the iteration with i == 0
bootstrap(history, i, date) ==
    IF i = 0 THEN Append(history, [Date |-> date, PortfolioValue |-> initial_cash])
    ELSE history

\* the rows the next iteration may read
NextRows ==
    LET i == Len(focused_data)
        keys == IF riskless THEN {asset, riskless_asset} ELSE {asset}
    IN  { [Date |-> i,
           Close |-> [a \in keys |-> IF a = asset THEN c ELSE l],
           Dividends |-> d,
           MA |-> moving_average(focused_data, c)] :
          c \in (IF i < RollingWindow - 2 THEN EarlyRiskyCloses ELSE LateRiskyCloses),
          l \in RisklessCloses,
          d \in [keys -> IF i \in DividendRows
                         THEN {NaN} \cup {{v} : v \in DividendRates}
                         ELSE {NaN}] }

----------------------------------------------------------------------------
(* historical_return: the loop over focused_data, one action per step *)

InitSim ==
    /\ trend \in BOOLEAN
    /\ riskless \in BOOLEAN
    /\ trend_period \in 0..MaxTrendPeriod
    /\ trend => (riskless /\ trend_period > 0)
    /\ initial_cash \in InitialCashValues
    /\ focused_data = <<>>
    /\ pc = "row"
    /\ cash = initial_cash
    /\ shares = [a \in (IF riskless THEN {asset, riskless_asset} ELSE {asset}) |-> 0]
    /\ shares_to_buy = 0
    /\ transactions = <<>>
    /\ portfolio_history = <<>>

\* the head of an iteration: the bootstrap entry and the dividends
Dividends ==
    /\ pc = "row"
    /\ Len(focused_data) < MaxRows
    /\ \E row \in NextRows :
        LET st == accrue_dividends([cash |-> cash, shares |-> shares,
                                    transactions |-> transactions], row, 1)
        IN  /\ portfolio_history' =
                   bootstrap(portfolio_history, Len(focused_data), row.Date)
            /\ focused_data' = Append(focused_data, row)
            /\ cash' = st.cash
            /\ transactions' = st.transactions
    /\ pc' = "decide"
    /\ UNCHANGED <<trend, trend_period, riskless, initial_cash, shares, shares_to_buy>>
    /\ UNCHANGED <<alignVars, statVars>>

\* the risky branch: sell the riskless asset when trend following
SellRiskless ==
    /\ pc = "decide"
    /\ select_risky(Last(focused_data))
    /\ LET row == Last(focused_data)
       IN  IF trend
           THEN /\ cash' = cash + round2(shares[riskless_asset] * row.Close[riskless_asset])
                /\ shares' = [shares EXCEPT ![riskless_asset] = 0]
                /\ transactions' = Append(transactions,
                       transaction(row.Date, "Sell", riskless_asset,
                                   row.Close[riskless_asset], SharesRef,
                                   round2(shares'[riskless_asset] * row.Close[riskless_asset])))
           ELSE UNCHANGED <<cash, shares, transactions>>
    /\ pc' = "buy_risky"
    /\ UNCHANGED <<trend, trend_period, riskless, initial_cash, focused_data,
                   shares_to_buy, portfolio_history>>
    /\ UNCHANGED <<alignVars, statVars>>

\* the other branch: sell the risky asset
SellRisky ==
    /\ pc = "decide"
    /\ ~select_risky(Last(focused_data))
    /\ LET row == Last(focused_data)
       IN  /\ cash' = cash + round2(shares[asset] * row.Close[asset])
           /\ shares' = [shares EXCEPT ![asset] = 0]
           /\ transactions' = Append(transactions,
                  transaction(row.Date, "Sell", asset, row.Close[asset], SharesRef,
                              round2(shares'[asset] * row.Close[asset])))
    /\ pc' = "buy_riskless"
    /\ UNCHANGED <<trend, trend_period, riskless, initial_cash, focused_data,
                   shares_to_buy, portfolio_history>>
    /\ UNCHANGED <<alignVars, statVars>>

\* a purchase that rounds the units up
ceil_units(c, close) == (c \div close) + 1

\* cash // close
floor_units(c, close) == c \div close

\* the purchase of the asset a: the units, the payment, the holding, the record
buy(a) ==
    LET row == Last(focused_data)
        n == floor_units(cash, row.Close[a])
    IN  /\ shares_to_buy' = n
        /\ cash' = cash - round2(n * row.Close[a])
        /\ shares' = [shares EXCEPT ![a] = @ + n]
        /\ transactions' =
               IF n > 0
               THEN Append(transactions,
                        transaction(row.Date, "Buy", a, row.Close[a], n,
                                    round2(n * row.Close[a])))
               ELSE transactions

BuyRisky ==
    /\ pc = "buy_risky"
    /\ buy(asset)
    /\ pc' = "value"
    /\ UNCHANGED <<trend, trend_period, riskless, initial_cash, focused_data,
                   portfolio_history>>
    /\ UNCHANGED <<alignVars, statVars>>

BuyRiskless ==
    /\ pc = "buy_riskless"
    /\ IF trend THEN buy(riskless_asset)
       ELSE UNCHANGED <<shares_to_buy, cash, shares, transactions>>
    /\ pc' = "value"
    /\ UNCHANGED <<trend, trend_period, riskless, initial_cash, focused_data,
                   portfolio_history>>
    /\ UNCHANGED <<alignVars, statVars>>

RECURSIVE current_value(_, _, _)
current_value(value, row, k) ==
    IF k > Len(share_keys) THEN value
    ELSE current_value(value + round2(shares[share_keys[k]] * row.Close[share_keys[k]]),
                       row, k + 1)

\* the end of an iteration: the month's value
Valuation ==
    /\ pc = "value"
    /\ LET row == Last(focused_data)
       IN  portfolio_history' = Append(portfolio_history,
               [Date |-> row.Date, PortfolioValue |-> current_value(cash, row, 1)])
    /\ pc' = "row"
    /\ UNCHANGED <<trend, trend_period, riskless, initial_cash, focused_data,
                   cash, shares, shares_to_buy, transactions>>
    /\ UNCHANGED <<alignVars, statVars>>

\* the table is exhausted: the results are saved and returned
Return ==
    /\ pc = "row"
    /\ pc' = "done"
    /\ UNCHANGED <<trend, trend_period, riskless, initial_cash, focused_data,
                   cash, shares, shares_to_buy, transactions, portfolio_history>>
    /\ UNCHANGED <<alignVars, statVars>>

\* pd.DataFrame()
EmptyFrame == [Date |-> <<>>, columns |-> <<>>]

InitSimIdle ==
    /\ trend = FALSE /\ trend_period = 0 /\ riskless = FALSE /\ initial_cash = 0
    /\ focused_data = <<>> /\ pc = "idle" /\ cash = 0 /\ shares = <<>>
    /\ shares_to_buy = 0 /\ transactions = <<>> /\ portfolio_history = <<>>
InitAlignIdle == files = <<>> /\ all_data = EmptyFrame /\ apc = "idle"
InitStatIdle ==
    /\ returns = <<>> /\ idx = 0 /\ max_value = 0 /\ max_drawdown = <<0, 1>>
    /\ spc = "idle"

Init == InitSim /\ InitAlignIdle /\ InitStatIdle

Next ==
    \/ Dividends
    \/ SellRiskless
    \/ SellRisky
    \/ BuyRisky
    \/ BuyRiskless
    \/ Valuation
    \/ Return

Spec == Init /\ [][Next]_vars

----------------------------------------------------------------------------
(* organize_data: the loop over the assets, one action per outcome of an    *)
(* iteration.  files[k] is what the reads of the k-th asset found: a file   *)
(* is FileNotFound or {the set of year-month dates of its rows}.  A table   *)
(* is its Date column and its other columns' names.                         *)

Periods == {1, 2}
FileNotFound == {}
PriceFiles == {FileNotFound} \cup {{S} : S \in (SUBSET Periods) \ {{}}}
DividendFiles == {FileNotFound, {{}}, {{2}}}
Sources == [price : PriceFiles, dividends : DividendFiles]

RECURSIVE Sorted(_)
Sorted(S) ==
    IF S = {} THEN <<>>
    ELSE LET m == CHOOSE x \in S : \A y \in S : x <= y
         IN  <<m>> \o Sorted(S \ {m})

RECURSIVE Keep(_, _)
Keep(seq, S) ==
    IF seq = <<>> THEN <<>>
    ELSE IF seq[1] \in S THEN <<seq[1]>> \o Keep(Tail(seq), S)
    ELSE Keep(Tail(seq), S)

Range(seq) == {seq[k] : k \in 1..Len(seq)}
Max(a, b) == IF a >= b THEN a ELSE b

\* the except clauses of the two reads
price_found(f) == f.price # FileNotFound

\* a read of the dividends that never fails
dividends_tolerated(f) == TRUE

dividends_found(f) == f.dividends # FileNotFound

\* asset_data of the k-th asset: the close, the moving average when trend is
\* set, and the dividends merged on with how = "outer"
asset_data(k, f) ==
    [Date |-> Sorted((UNION f.price) \cup (UNION f.dividends)),
     columns |-> IF trend
                 THEN <<[col |-> "Close", of |-> k], [col |-> "MA", of |-> k],
                        [col |-> "Dividends", of |-> k]>>
                 ELSE <<[col |-> "Close", of |-> k], [col |-> "Dividends", of |-> k]>>]

\* DataFrame.empty: an axis of length 0
empty(frame) == Len(frame.Date) = 0 \/ Len(frame.columns) = 0

\* all_data.merge(asset_data, how = "inner", on = ["Date"])
inner_merge(left, right) ==
    [Date |-> Keep(left.Date, Range(right.Date)),
     columns |-> left.columns \o right.columns]

InitAlign ==
    /\ trend \in BOOLEAN
    /\ trend_period \in 0..MaxTrendPeriod
    /\ trend => trend_period # 0
    /\ riskless = FALSE /\ initial_cash = 0
    /\ focused_data = <<>> /\ pc = "idle" /\ cash = 0 /\ shares = <<>>
    /\ shares_to_buy = 0 /\ transactions = <<>> /\ portfolio_history = <<>>
    /\ files = <<>>
    /\ all_data = EmptyFrame
    /\ apc = "loop"
    /\ InitStatIdle

\* the price file is not found: the asset is left out
SkipNoPrice ==
    /\ apc = "loop"
    /\ Len(files) < MaxAssets
    /\ \E f \in Sources :
        /\ ~price_found(f)
        /\ files' = Append(files, f)
    /\ UNCHANGED <<all_data, apc, simVars, statVars>>

\* the dividend file is not found: the asset is left out
SkipNoDividends ==
    /\ apc = "loop"
    /\ Len(files) < MaxAssets
    /\ \E f \in Sources :
        /\ price_found(f)
        /\ ~dividends_found(f)
        /\ files' = Append(files, f)
    /\ UNCHANGED <<all_data, apc, simVars, statVars>>

\* all_data is empty: the asset's table becomes all_data
Seed ==
    /\ apc = "loop"
    /\ Len(files) < MaxAssets
    /\ empty(all_data)
    /\ \E f \in Sources :
        /\ price_found(f)
        /\ dividends_found(f)
        /\ files' = Append(files, f)
        /\ all_data' = asset_data(Len(files) + 1, f)
    /\ UNCHANGED <<apc, simVars, statVars>>

\* otherwise the asset's table is inner-joined onto all_data
Join ==
    /\ apc = "loop"
    /\ Len(files) < MaxAssets
    /\ ~empty(all_data)
    /\ \E f \in Sources :
        /\ price_found(f)
        /\ dividends_found(f)
        /\ files' = Append(files, f)
        /\ all_data' = inner_merge(all_data, asset_data(Len(files) + 1, f))
    /\ UNCHANGED <<apc, simVars, statVars>>

\* return all_data[max(trend_period - 1, 0):]
AlignReturn ==
    /\ apc = "loop"
    /\ all_data' = [all_data EXCEPT
           !.Date = SubSeq(@, Max(trend_period - 1, 0) + 1, Len(@))]
    /\ apc' = "done"
    /\ UNCHANGED <<files, simVars, statVars>>

NextAlign ==
    \/ SkipNoPrice
    \/ SkipNoDividends
    \/ Seed
    \/ Join
    \/ AlignReturn

SpecAlign == InitAlign /\ [][NextAlign]_vars

----------------------------------------------------------------------------
(* portfolio_statistics: the check of the first two dates and the walk that *)
(* computes the max drawdown                                                *)

\* a drawdown taken against the current value instead of the peak
drawdown_of_current(peak, value) == <<peak - value, value>>

\* (max_value - current_value) / max_value
drawdown(peak, value) == <<peak - value, peak>>

\* max(a, b) of two fractions
max_fraction(a, b) == IF b[1] * a[2] > a[1] * b[2] THEN b ELSE a

\* the value histories read from the csv: those of historical_return, whose
\* first two dates are equal, and those with a date per entry
Histories ==
    UNION {[1..n -> [Date : {0}, PortfolioValue : 1..MaxValue]] : n \in 2..MaxHistory}

InitStats ==
    /\ InitSimIdle
    /\ InitAlignIdle
    /\ \E bootstrapped \in BOOLEAN :
         returns \in { [k \in 1..Len(h) |->
                          [h[k] EXCEPT !.Date = IF bootstrapped THEN Max(k - 2, 0)
                                                ELSE k - 1]] : h \in Histories }
    /\ idx = 0
    /\ max_value = 0
    /\ max_drawdown = <<0, 1>>
    /\ spc = "assert"

\* assert returns.loc[0]["Date"] == returns.loc[1]["Date"], and the start of the walk
StatStart ==
    /\ spc = "assert"
    /\ returns[1].Date = returns[2].Date
    /\ max_value' = returns[1].PortfolioValue
    /\ max_drawdown' = <<0, 1>>
    /\ idx' = 1
    /\ spc' = "walk"
    /\ UNCHANGED <<returns, simVars, alignVars>>

AssertFails ==
    /\ spc = "assert"
    /\ returns[1].Date # returns[2].Date
    /\ spc' = "AssertionError"
    /\ UNCHANGED <<returns, idx, max_value, max_drawdown, simVars, alignVars>>

\* one iteration of for i in range(1, len(returns.index), 1)
DrawdownStep ==
    /\ spc = "walk"
    /\ idx < Len(returns)
    /\ LET value == returns[idx + 1].PortfolioValue
       IN  IF value >= max_value
           THEN /\ max_value' = value
                /\ UNCHANGED max_drawdown
           ELSE /\ max_drawdown' =
                       max_fraction(max_drawdown, drawdown(max_value, value))
                /\ UNCHANGED max_value
    /\ idx' = idx + 1
    /\ UNCHANGED <<returns, spc, simVars, alignVars>>

\* statistics["max_drawdown"] = max_drawdown
StatReturn ==
    /\ spc = "walk"
    /\ idx = Len(returns)
    /\ spc' = "done"
    /\ UNCHANGED <<returns, idx, max_value, max_drawdown, simVars, alignVars>>

NextStats ==
    \/ StatStart
    \/ AssertFails
    \/ DrawdownStep
    \/ StatReturn

SpecStats == InitStats /\ [][NextStats]_vars

----------------------------------------------------------------------------
(* Claims about historical_return, checked under Spec *)

AtBoundary == pc \in {"row", "done"}

\* C1 (as stated): after each row has been processed, cash >= 0 and the unit
\* count of every held asset is a non-negative integer, for any positive
\* initial cash and any positive closes.
C1_CashAndUnitsNonNegative ==
    AtBoundary => (cash >= 0 /\ \A a \in DOMAIN shares : shares[a] \in Nat)

\* C2 (amended): the purchase buys shares_to_buy = floor(cash / close) units,
\* so shares_to_buy * close <= cash before the purchase; cash is decremented by
\* shares_to_buy * close rounded to a whole number of cents, so the cash left is
\* strictly less than close plus half a cent; the holding of the selected asset
\* is incremented by shares_to_buy.
C2_PurchaseRounded ==
    [][(pc \in {"buy_risky", "buy_riskless"} /\ pc' = "value" /\ (pc = "buy_risky" \/ trend))
        => LET a == IF pc = "buy_risky" THEN asset ELSE riskless_asset
               close == Last(focused_data).Close[a]
               paid == cash - cash'
               exact == shares_to_buy' * close
           IN  /\ exact <= cash
               /\ cash < exact + close
               /\ paid % Cent = 0
               /\ 2 * (paid - exact) <= Cent
               /\ 2 * (exact - paid) <= Cent
               /\ 2 * (cash' - close) < Cent
               /\ shares' = [shares EXCEPT ![a] = @ + shares_to_buy']]_vars

\* C2 (as stated): cash is decremented by exactly shares_to_buy * close and the
\* cash left after the purchase is strictly less than close.
C2_PurchaseExact ==
    [][(pc \in {"buy_risky", "buy_riskless"} /\ pc' = "value" /\ (pc = "buy_risky" \/ trend))
        => LET a == IF pc = "buy_risky" THEN asset ELSE riskless_asset
               close == Last(focused_data).Close[a]
               exact == shares_to_buy' * close
           IN  /\ exact <= cash
               /\ cash' = cash - exact
               /\ cash' < close
               /\ shares' = [shares EXCEPT ![a] = @ + shares_to_buy']]_vars

\* a purchase of the risky asset has left cash that still covers one more unit
C2_Witness ==
    /\ ~trend
    /\ pc = "value"
    /\ shares_to_buy > 0
    /\ cash >= Last(focused_data).Close[asset]

\* C3: the value history of a run over a non-empty table has one entry more than
\* the table has rows: the bootstrap entry (date of row 0, initial_cash), then one
\* entry per row in row order; its first two entries share the date of row 0.
C3_HistoryShape ==
    (AtBoundary /\ Len(focused_data) > 0)
        => /\ Len(portfolio_history) = Len(focused_data) + 1
           /\ portfolio_history[1] =
                  [Date |-> focused_data[1].Date, PortfolioValue |-> initial_cash]
           /\ \A k \in 1..Len(focused_data) :
                  portfolio_history[k + 1].Date = focused_data[k].Date
           /\ portfolio_history[1].Date = portfolio_history[2].Date

\* the run has returned the history of a table of several rows
C3_Witness == pc = "done" /\ Len(focused_data) >= 2

\* C4: with trend on, the risky branch is taken iff Close > MA strictly (a tie,
\* a lower close or a NaN average takes the riskless branch), the holding of the
\* asset not selected is 0 once the row is processed, and at most one asset is
\* held; with trend off the risky branch is always taken and no Sell of the
\* risky asset is ever made.
C4_TrendRule ==
    (Len(focused_data) > 0 /\ pc # "decide")
        => LET row == Last(focused_data)
               above == /\ row.MA # {}
                        /\ \E m \in row.MA : row.Close[asset] * m[2] > m[1]
           IN  /\ trend =>
                    /\ pc = "buy_risky" => above
                    /\ pc = "buy_riskless" => ~above
                    /\ IF above THEN shares[riskless_asset] = 0 ELSE shares[asset] = 0
               /\ ~trend =>
                    /\ pc # "buy_riskless"
                    /\ \A k \in 1..Len(transactions) :
                           ~(transactions[k].Transaction = "Sell"
                             /\ transactions[k].Asset = asset)
               /\ Cardinality({a \in DOMAIN shares : shares[a] > 0}) <= 1

\* a trend-following run has moved into the risky asset
C4_Witness == trend /\ pc = "value" /\ shares[asset] > 0 /\ shares[riskless_asset] = 0

\* C4 (as stated): the trend rule above, and with trend off the risky asset is
\* never sold: its holding never shrinks.
C4_RiskyNeverSold ==
    [][C4_TrendRule' /\ ((~trend) => shares'[asset] >= shares[asset])]_vars

\* C5 (as stated): the decision step of a row appends a Sell record iff the
\* asset not selected had a positive unit balance, which it liquidates: one Sell
\* for that asset then, and no record when the units liquidated are 0.
C5_SellIffLiquidated ==
    [][(pc = "decide" /\ pc' # pc)
        => LET other == IF pc' = "buy_risky" THEN riskless_asset ELSE asset
               held == IF other \in DOMAIN shares THEN shares[other] ELSE 0
           IN  IF held > 0
               THEN /\ Len(transactions') = Len(transactions) + 1
                    /\ SubSeq(transactions', 1, Len(transactions)) = transactions
                    /\ Last(transactions').Transaction = "Sell"
                    /\ Last(transactions').Asset = other
               ELSE transactions' = transactions]_vars

\* C6 (as stated): the dividend step of a row adds, for every held asset with a
\* dividend cell that is not NaN, units * dividend (to the cent) to cash, before
\* the decision and the purchase of the row, and appends a Dividend record for
\* the asset iff that amount is not zero, carrying the amount.
C6_DividendIffNonZero ==
    [][(pc = "row" /\ pc' = "decide")
        => LET row == Last(focused_data')
               amount(a) == IF row.Dividends[a] = {} THEN 0
                            ELSE round2(shares[a] * ValueOf(row.Dividends[a]))
               total == IF riskless THEN amount(asset) + amount(riskless_asset)
                        ELSE amount(asset)
               new == SubSeq(transactions', Len(transactions) + 1, Len(transactions'))
           IN  /\ cash' = cash + total
               /\ shares' = shares
               /\ \A k \in 1..Len(new) : new[k].Transaction = "Dividend"
               /\ \A a \in DOMAIN shares :
                      (amount(a) # 0) <=>
                          \E k \in 1..Len(new) :
                              new[k].Asset = a /\ new[k].Value = amount(a)]_vars

\* C7 (as stated): the moving average a trend-following run compares the risky
\* close against in row i is the mean of the closes of the trend_period rows
\* ending at row i, and undefined in the first trend_period - 1 rows.
C7_WindowIsTrendPeriod ==
    trend =>
        \A k \in 1..Len(focused_data) :
            LET ma == focused_data[k].MA
            IN  IF k < trend_period THEN ma = {}
                ELSE /\ ma # {}
                     /\ \E m \in ma :
                            m[1] * trend_period =
                                m[2] * SumCloses(focused_data, k - trend_period + 1, k)

RECURSIVE LogTotal(_, _, _)
LogTotal(log, kind, k) ==
    IF k = 0 THEN 0
    ELSE LogTotal(log, kind, k - 1)
         + (IF log[k].Transaction = kind THEN log[k].Value ELSE 0)

\* C11, the accounting identity alone: cash = initial_cash + the Dividend values
\* + the Sell values - the Buy values of the transaction log.
C11_CashMatchesLog ==
    cash = initial_cash
           + LogTotal(transactions, "Dividend", Len(transactions))
           + LogTotal(transactions, "Sell", Len(transactions))
           - LogTotal(transactions, "Buy", Len(transactions))

\* C11 (as stated): every Buy and Sell record carries the number of units traded
\* and a value that is the amount by which the action changed cash (units *
\* close, to the cent), so that after any sequence of rows cash = initial_cash
\* + Dividend values + Sell values - Buy values over the log.
C11_RecordsAccountForCash ==
    [][(pc' # pc /\ pc \in {"decide", "buy_risky", "buy_riskless"})
        => /\ \A k \in (Len(transactions) + 1)..Len(transactions') :
                LET t == transactions'[k]
                IN  /\ t.Transaction = "Buy" =>
                          /\ t.Units = shares'[t.Asset] - shares[t.Asset]
                          /\ t.Value = cash - cash'
                          /\ t.Value = round2(t.Units * t.Price)
                    /\ t.Transaction = "Sell" =>
                          /\ t.Units # SharesRef
                          /\ t.Units = shares[t.Asset] - shares'[t.Asset]
                          /\ t.Value = cash' - cash
                          /\ t.Value = round2(t.Units * t.Price)
           /\ C11_CashMatchesLog']_vars

\* the riskless holding has just been liquidated: cash holds the proceeds and
\* the Sell record a value of 0
C11_Witness ==
    /\ trend
    /\ pc = "buy_risky"
    /\ Len(transactions) > 0
    /\ Last(transactions).Transaction = "Sell"
    /\ Last(transactions).Asset = riskless_asset
    /\ Last(transactions).Value = 0
    /\ cash > Last(transactions).Price

----------------------------------------------------------------------------
(* Claims about organize_data, checked under SpecAlign *)

PricePeriods(k) == UNION files[k].price
Merged(frame) == {frame.columns[j].of : j \in 1..Len(frame.columns)}

AllFound ==
    \A k \in 1..Len(files) :
        files[k].price # FileNotFound /\ files[k].dividends # FileNotFound

\* C8 (as stated): when the series of every asset are present, the periods of
\* the table before trimming are exactly the intersection of the assets' price
\* periods, also after an inner join that left the table empty.
C8_PeriodsAreIntersection ==
    (apc = "loop" /\ Len(files) >= 1 /\ AllFound)
        => Range(all_data.Date) =
               {d \in Periods : \A k \in 1..Len(files) : d \in PricePeriods(k)}

\* C8, supporting check: the periods are that intersection when no dividend is
\* dated in a period outside the asset's prices and no join has yet left the
\* table empty.
C8_HoldsOnNestedDates ==
    (apc = "loop" /\ Len(files) >= 1 /\ AllFound
       /\ \A k \in 1..Len(files) : (UNION files[k].dividends) \subseteq PricePeriods(k))
        => \/ Range(all_data.Date) =
               {d \in Periods : \A k \in 1..Len(files) : d \in PricePeriods(k)}
           \/ \E n \in 1..(Len(files) - 1) :
                 {d \in Periods : \A k \in 1..n : d \in PricePeriods(k)} = {}

----------------------------------------------------------------------------
(* Claims about portfolio_statistics, checked under SpecStats *)

ValueAt(k) == returns[k].PortfolioValue
PeakAt(k) == CHOOSE m \in {ValueAt(j) : j \in 1..k} : \A j \in 1..k : ValueAt(j) <= m

\* C10: for a history of at least 2 positive values, max_drawdown lies in
\* [0, 1], is the maximum over the entries of (running peak - value) / running
\* peak, the running peak being the largest value from history[0] on, and is 0
\* iff the values never decrease.
C10_MaxDrawdown ==
    spc = "done"
        => /\ max_drawdown[2] > 0
           /\ 0 <= max_drawdown[1]
           /\ max_drawdown[1] <= max_drawdown[2]
           /\ \A k \in 1..Len(returns) :
                  (PeakAt(k) - ValueAt(k)) * max_drawdown[2] <= max_drawdown[1] * PeakAt(k)
           /\ \E k \in 1..Len(returns) :
                  (PeakAt(k) - ValueAt(k)) * max_drawdown[2] = max_drawdown[1] * PeakAt(k)
           /\ (max_drawdown[1] = 0) <=>
                  \A k \in 1..(Len(returns) - 1) : ValueAt(k) <= ValueAt(k + 1)

\* the walk has ended on a history that fell below its peak and recovered
C10_Witness ==
    /\ spc = "done"
    /\ max_drawdown[1] > 0
    /\ \E k \in 2..(Len(returns) - 1) :
          ValueAt(k) < ValueAt(k - 1) /\ ValueAt(k + 1) > ValueAt(k)

====
